---- MODULE Spec2Model ----
(***************************************************************************)
(* Model of flexSensorArray_control.ino: the bring-up dispatcher (setup),  *)
(* the run-time command dispatcher and the whisking transition / motion    *)
(* pass (loop), the homing routine (home_stepper) and the Timer1 sampling  *)
(* interrupt (timerIsr).  The AccelStepper objects the sketch drives are   *)
(* modelled by their position, target and a signed speed level (the number *)
(* of steps the motor still needs to come to rest, signed by direction).   *)
(***************************************************************************)
EXTENDS Integers, Sequences, FiniteSets, TLC

(***************************************************************************)
(* Program constants.                                                      *)
(***************************************************************************)
ALL_FLAG == 999
MAX_SHIELDS == 16
MAX_STEPPERS == 16
MAX_WHISKERS == 16
MAX_STEPS == 200
default_prot == 133
default_ret == 22
default_speed == 1500
default_accel == 500
default_period == 20000
\* the number of entries of motorShield_addresses[]
AddressTable == 32
\* char *argument_words[8]; char user_command_buffer[64]
ArgSlots == 8
BufferSize == 64
\* sizeof(argument_words), the maxArgs handed to parse(): 8 pointers of 2 bytes
MaxArgs == 16

(***************************************************************************)
(* Bounds of the model.                                                    *)
(***************************************************************************)
\* capacity, in complete lines, of the serial receive buffer
MaxWords == 16
MaxRx == 2
\* millis() is read modulo ClockMod
ClockMod == 2

Slots == 0 .. (MAX_STEPPERS - 1)
Channels == 0 .. (MAX_WHISKERS - 1)

Max(a, b) == IF a >= b THEN a ELSE b
Min(a, b) == IF a <= b THEN a ELSE b
Abs(a) == IF a >= 0 THEN a ELSE 0 - a
Sign(a) == IF a > 0 THEN 1 ELSE IF a < 0 THEN 0 - 1 ELSE 0

\* atoi() on the Arduino Mega returns a 16-bit int
Atoi(n) == ((n + 32768) % 65536) - 32768

(***************************************************************************)
(* The AccelStepper object of one axis.                                    *)
(***************************************************************************)
NoStepper == [live |-> FALSE, pos |-> 0, tgt |-> 0, spd |-> 0, maxSpeed |-> 0, accel |-> 0]

\* new AccelStepper(...); setMaxSpeed(default_speed); setAcceleration(default_accel)
NewStepper == [live |-> TRUE, pos |-> 0, tgt |-> 0, spd |-> 0,
               maxSpeed |-> default_speed, accel |-> default_accel]

\* accel_steppers[i]->distanceToGo()
DistanceToGo(s) == s.tgt - s.pos

\* the highest speed level maxSpeed allows: v^2 / (2 a) steps to stop, at least 1
SpeedCap(s) == Max(1, (s.maxSpeed * s.maxSpeed) \div (2 * s.accel))

\* computeNewSpeed() when no step was taken: stop at the target, start from rest
Settle(s) ==
  IF DistanceToGo(s) = 0 /\ Abs(s.spd) <= 1 THEN [s EXCEPT !.spd = 0]
  ELSE IF s.spd = 0 THEN [s EXCEPT !.spd = Sign(DistanceToGo(s))]
  ELSE s

\* accel_steppers[i]->moveTo(absolute)
MoveToIgnored(s, absolute) == s
MoveTo(s, absolute) ==
  IF s.tgt = absolute THEN s ELSE Settle([s EXCEPT !.tgt = absolute])

\* accel_steppers[i]->stop(): retarget to the nearest point the motor can stop at
StopNoop(s) == s
Stop(s) ==
  IF s.spd # 0 THEN MoveTo(s, s.pos + s.spd) ELSE s

\* accel_steppers[i]->setMaxSpeed(speed)
SetMaxSpeed(s, speed) == [s EXCEPT !.maxSpeed = Abs(speed)]

\* accel_steppers[i]->setAcceleration(accel): the steps needed to stop scale
\* with old / new acceleration
SetAcceleration(s, a) ==
  IF a = 0 \/ Abs(a) = s.accel THEN s
  ELSE Settle([s EXCEPT !.accel = Abs(a),
                        !.spd = Sign(s.spd) * ((Abs(s.spd) * s.accel) \div Abs(a))])

\* accel_steppers[i]->setCurrentPosition(position)
SetCurrentPosition(s, position) ==
  [s EXCEPT !.pos = position, !.tgt = position, !.spd = 0]

\* the speed level after one step has been taken
LevelAfterStep(s, pos1) ==
  LET d == s.tgt - pos1
      dir == Sign(s.spd)
      lvl == Abs(s.spd)
  IN  IF d = 0 /\ lvl <= 1 THEN 0
      ELSE IF d * dir > 0
        THEN dir * Max(lvl - 1, Min(Min(lvl + 1, Abs(d)), SpeedCap(s)))
      ELSE IF lvl - 1 = 0 THEN Sign(d)
      ELSE dir * (lvl - 1)

\* accel_steppers[i]->run() when a step is due: one step in the current direction
StepOnce(s) ==
  LET pos1 == s.pos + Sign(s.spd)
  IN  [s EXCEPT !.pos = pos1, !.spd = LevelAfterStep(s, pos1)]


(***************************************************************************)
(* _currentPos is a 32-bit long that the 8-bit processor stores one byte   *)
(* at a time: while a store is in progress the memory holds some bytes of  *)
(* the old value and some of the new one.                                  *)
(***************************************************************************)
Pow256(i) == IF i = 0 THEN 1 ELSE IF i = 1 THEN 256 ELSE IF i = 2 THEN 65536 ELSE 16777216
\* byte i of the two's complement representation
ByteOf(x, i) == (x \div Pow256(i)) % 256
\* the value read when exactly the bytes in done have been stored
Mix(old, new, done) ==
  LET b(i) == IF i \in done THEN ByteOf(new, i) ELSE ByteOf(old, i)
  IN  b(0) + b(1) * 256 + b(2) * 65536
        + (IF b(3) >= 128 THEN b(3) - 256 ELSE b(3)) * 16777216
Torn(old, new) == { Mix(old, new, done) : done \in SUBSET (0 .. 3) } \ {old, new}

(***************************************************************************)
(* Input lines.  A line is its command word and its numeric arguments.     *)
(***************************************************************************)
Line(c, args) == [cmd |-> c, a |-> args]
Arg(l, n) == IF n <= Len(l.a) THEN Atoi(l.a[n]) ELSE 0

RunCmds == {"set_prot", "set_ret", "set_speed", "set_accel", "whisk",
            "set_sampling", "home_stepper", "halt_whisk", "retract"}

NoCmd == [cmd |-> "", sid |-> 0, val |-> 0]
NoWrite == [on |-> FALSE, ax |-> 0, old |-> NoStepper, new |-> 0]
NoHist == [cmd |-> "", from |-> 0, mid |-> FALSE, stopAt |-> 0, seq |-> <<>>]

VARIABLES
  script,           \* the lines the host has still to send
  rx,               \* complete lines waiting in the serial receive buffer
  pc, cur, k, sub,  \* where setup()/loop() stands: place, command, axis index, statement
  ready,            \* number of '!' sentinels written
  setup_complete, num_shields, num_steppers, num_whiskers,
  motor_shields, steppers, is_left, whisker_col_id,
  sampling_period, sampling,
  prot_steps, ret_steps, whisking_status, accel_steppers,
  isr, ich, frame,  \* timerIsr: off / idle / run, channel index, lines written this tick
  now,              \* millis()
  wr,               \* a store to _currentPos in progress
  onestep,          \* the last low-level step home_stepper issued: <<axis, direction>>
  decl,             \* history: whisker count of each declared axis, in declaration order
  pre,              \* history: the axis registry when the current command was dispatched
  hist,             \* history: per axis, the last command addressed to it and the phases since
  last,             \* history: the last command completed
  stuck,            \* the axes whose limit switch never reads triggered
  argc,             \* the number of words parse() found in the line being dispatched
  buf, lp, argw, pst, \* parse(): the line, the read position, the entries written, the place
  dbg,              \* number of debug lines written to the serial channel
  timer             \* the period Timer1 was started with, as <<high word, low word>>

hostVars == <<script, rx>>
parseVars == <<buf, lp, argw, pst>>
outVars == <<dbg, timer>>
envVars == <<stuck, argc, parseVars, outVars>>
ctlVars == <<pc, cur, k, sub>>
topoVars == <<setup_complete, num_shields, num_steppers, num_whiskers,
              motor_shields, steppers, is_left, whisker_col_id, decl, sampling_period>>
axisVars == <<prot_steps, ret_steps, whisking_status, accel_steppers>>
isrVars == <<isr, ich, frame>>
ghostVars == <<pre, hist, last>>
vars == <<script, rx, pc, cur, k, sub, ready, setup_complete, num_shields, num_steppers,
          num_whiskers, motor_shields, steppers, is_left, whisker_col_id, sampling_period,
          sampling, prot_steps, ret_steps, whisking_status, accel_steppers, isr, ich,
          frame, now, wr, onestep, decl, pre, hist, last, stuck, argc,
          buf, lp, argw, pst, dbg, timer>>

\* the registry a command may change
Registry == [prot |-> prot_steps, ret |-> ret_steps, status |-> whisking_status,
             drv |-> accel_steppers]
NoPre == [prot |-> <<>>, ret |-> <<>>, status |-> <<>>, drv |-> <<>>]

(***************************************************************************)
(* The state when setup() is entered: the globals as initialised.          *)
(***************************************************************************)
InitFirmware ==
  /\ rx = <<>>
  /\ pc = "boot" /\ cur = NoCmd /\ k = 0 /\ sub = 0
  /\ ready = 0
  /\ setup_complete = 0 /\ num_shields = 0 /\ num_steppers = 0 /\ num_whiskers = 0
  /\ motor_shields = <<>>
  /\ steppers = <<>>
  /\ is_left = [i \in Slots |-> 0]
  /\ whisker_col_id = [c \in Channels |-> 0]
  /\ sampling_period = default_period
  /\ sampling = 0
  /\ prot_steps = [i \in Slots |-> IF i = 0 THEN default_prot ELSE 0]
  /\ ret_steps = [i \in Slots |-> IF i = 0 THEN default_ret ELSE 0]
  /\ whisking_status = [i \in Slots |-> 0]
  /\ accel_steppers = [i \in Slots |-> NoStepper]
  /\ isr = "off" /\ ich = 0 /\ frame = <<>>
  /\ now = 0
  /\ wr = NoWrite
  /\ onestep = <<>>
  /\ decl = <<>>
  /\ pre = NoPre
  /\ hist = [i \in Slots |-> NoHist]
  /\ last = NoCmd
  /\ argc = 0
  /\ dbg = 0
  /\ timer = <<>>

\* parse() is not running
NoParse == buf = <<>> /\ lp = 0 /\ argw = <<>> /\ pst = "off"

\* the main program runs only outside the interrupt handler
MainRuns == isr # "run"

(***************************************************************************)
(* The host writes its next line to the serial port.  The firmware looks   *)
(* at the receive buffer only where it tests Serial.available().           *)
(***************************************************************************)
Send ==
  /\ script # <<>>
  /\ Head(script).cmd # "#wait"
  /\ Len(rx) < MaxRx
  /\ pc \in {"boot", "setup", "loop"}
  /\ MainRuns
  /\ rx' = Append(rx, Head(script))
  /\ script' = Tail(script)
  /\ UNCHANGED <<envVars, ctlVars, ready, topoVars, sampling, axisVars, isrVars, now, wr, onestep,
                 ghostVars>>

\* The host pauses until bring-up has ended before it goes on.
HostWait ==
  /\ script # <<>>
  /\ Head(script).cmd = "#wait"
  /\ pc \notin {"boot", "setup"}
  /\ MainRuns
  /\ script' = Tail(script)
  /\ UNCHANGED <<envVars, rx, ctlVars, ready, topoVars, sampling, axisVars, isrVars, now, wr, onestep,
                 ghostVars>>

(***************************************************************************)
(* setup()                                                                 *)
(***************************************************************************)
\* Serial.println(...): one more line on the serial channel
PrintlnTwice(n) == n + 2
Println(n) == n + 1

\* "if (debug)", with "int debug = 0"
debug == 0
DebugPrintsAlways == TRUE
DebugPrints == debug # 0

\* the 32 bits of an unsigned long, as <<high word, low word>>; an int is
\* converted by sign extension
ULong(x) == <<(x \div 65536) % 65536, x % 65536>>

\* Serial.println('!')
Boot ==
  /\ pc = "boot"
  /\ ready' = Println(ready)
  /\ pc' = "setup"
  /\ UNCHANGED <<envVars, hostVars, cur, k, sub, topoVars, sampling, axisVars, isrVars, now, wr,
                 onestep, ghostVars>>

\* the decimal digits of an argument of "s": "x % 10" and "(x / 10) % 10"
Ones(x) == x % 10
TensAsOnes(x) == x % 10
Tens(x) == (x \div 10) % 10

\* "s shieldAddr steppersToAdd whiskersPerStepper sideColumnIsOn"
SetupS ==
  /\ pc = "setup" /\ rx # <<>> /\ Head(rx).cmd = "s"
  /\ LET l == Head(rx)
         sidx == Arg(l, 1)
         midx == Arg(l, 2)
         numw == Arg(l, 3)
         side == Arg(l, 4)
         mone == Ones(midx)
         mten == Tens(midx)
         wone == Ones(numw)
         wten == Tens(numw)
         sone == Ones(side)
         sten == Tens(side)
         \* after the tens-digit stepper
         n1 == IF mten # 0 THEN num_steppers + 1 ELSE num_steppers
         w1 == IF mten # 0 THEN num_whiskers + wten ELSE num_whiskers
         col1 == IF mten # 0
                   THEN [c \in Channels |-> IF c < wten THEN num_steppers
                                                       ELSE whisker_col_id[c]]
                   ELSE whisker_col_id
         left1 == IF mten # 0 THEN [is_left EXCEPT ![num_steppers] = sten] ELSE is_left
         st1 == IF mten # 0 THEN Append(steppers, <<num_shields, mten>>) ELSE steppers
         d1 == IF mten # 0 THEN Append(decl, wten) ELSE decl
     IN  /\ motor_shields' = Append(motor_shields, sidx)
         /\ num_steppers' = IF mone # 0 THEN n1 + 1 ELSE n1
         /\ num_whiskers' = IF mone # 0 THEN w1 + wone ELSE w1
         /\ whisker_col_id' = IF mone # 0
                                THEN [c \in Channels |-> IF c < wone THEN n1 ELSE col1[c]]
                                ELSE col1
         /\ is_left' = IF mone # 0 THEN [left1 EXCEPT ![n1] = sone] ELSE left1
         /\ steppers' = IF mone # 0 THEN Append(st1, <<num_shields, mone>>) ELSE st1
         /\ decl' = IF mone # 0 THEN Append(d1, wone) ELSE d1
         /\ num_shields' = num_shields + 1
  /\ rx' = Tail(rx)
  /\ UNCHANGED <<envVars, script, ctlVars, ready, setup_complete, sampling_period, sampling,
                 axisVars, isrVars, now, wr, onestep, ghostVars>>

\* "p interval"
SetupP ==
  /\ pc = "setup" /\ rx # <<>> /\ Head(rx).cmd = "p"
  /\ sampling_period' = Arg(Head(rx), 1)
  /\ rx' = Tail(rx)
  /\ UNCHANGED <<envVars, script, ctlVars, ready, setup_complete, num_shields, num_steppers,
                 num_whiskers, motor_shields, steppers, is_left, whisker_col_id, decl,
                 sampling, axisVars, isrVars, now, wr, onestep, ghostVars>>

\* "c"
SetupC ==
  /\ pc = "setup" /\ rx # <<>> /\ Head(rx).cmd = "c"
  /\ setup_complete' = 1
  /\ rx' = Tail(rx)
  /\ UNCHANGED <<envVars, script, ctlVars, ready, num_shields, num_steppers, num_whiskers,
                 motor_shields, steppers, is_left, whisker_col_id, decl, sampling_period,
                 sampling, axisVars, isrVars, now, wr, onestep, ghostVars>>

\* any other line: only the line buffer is reset
SetupOther ==
  /\ pc = "setup" /\ rx # <<>> /\ Head(rx).cmd \notin {"s", "p", "c"}
  /\ rx' = Tail(rx)
  /\ UNCHANGED <<envVars, script, ctlVars, ready, topoVars, sampling, axisVars, isrVars, now, wr,
                 onestep, ghostVars>>

\* the bring-up loop ends once setup_complete is set and the receive buffer is
\* drained; pins, initializeSteppers(), the debug line,
\* Timer1.initialize(sampling_period), Timer1.attachInterrupt(timerIsr)
SetupDone ==
  /\ pc = "setup" /\ rx = <<>> /\ setup_complete # 0
  /\ accel_steppers' = [i \in Slots |-> IF i < num_steppers THEN NewStepper
                                                            ELSE accel_steppers[i]]
  /\ dbg' = IF DebugPrints THEN Println(dbg) ELSE dbg
  /\ timer' = ULong(sampling_period)
  /\ isr' = "idle"
  /\ pc' = "loop"
  /\ UNCHANGED <<stuck, argc, parseVars, hostVars, cur, k, sub, ready, topoVars, sampling, prot_steps, ret_steps,
                 whisking_status, ich, frame, now, wr, onestep, ghostVars>>

(***************************************************************************)
(* loop(): the command dispatcher.  A command runs its statements axis by  *)
(* axis: k counts the iterations done and sub the statements done on the   *)
(* current axis, so that the interrupt can fall between any two of them.   *)
(***************************************************************************)
\* "steps < MAX_STEPS && steps > 1"
ValidStepsInclusive(steps) == steps <= MAX_STEPS /\ steps > 1
ValidSteps(steps) == steps < MAX_STEPS /\ steps > 1

\* the number of axes a dispatched command works on: the for loop over the
\* declared axes for ALL_FLAG, the one addressed axis otherwise
IterationsShort(c) ==
  IF c.cmd \in {"set_prot", "set_ret"} /\ ~ValidSteps(c.val) THEN 0
  ELSE IF c.cmd = "set_sampling" THEN 1
  ELSE IF c.sid = ALL_FLAG THEN Max(num_steppers - 1, 0)
  ELSE 1
Iterations(c) ==
  IF c.cmd \in {"set_prot", "set_ret"} /\ ~ValidSteps(c.val) THEN 0
  ELSE IF c.cmd = "set_sampling" THEN 1
  ELSE IF c.sid = ALL_FLAG THEN num_steppers
  ELSE 1

\* the axis the current iteration works on
AxisFirst == IF cur.sid = ALL_FLAG THEN 0 ELSE cur.sid
Axis == IF cur.sid = ALL_FLAG THEN k ELSE cur.sid

\* where loop() goes when a line has been handled: the while loop tests
\* Serial.available() again
AfterLineToPass == "pass"
AfterLine == "loop"

\* history: a command starts on axis a
Started(a) ==
  [hist EXCEPT ![a] = [cmd |-> cur.cmd, from |-> whisking_status[a],
                       mid |-> DistanceToGo(accel_steppers[a]) # 0,
                       stopAt |-> accel_steppers[a].pos + accel_steppers[a].spd,
                       seq |-> <<>>]]
\* history: phase v is written to axis a
Noted(h, a, v) == [h EXCEPT ![a].seq = Append(@, v)]

\* the commands that read argument_words[2]
ReadsTwo(c) == c \in {"set_prot", "set_ret", "set_speed", "set_accel"}

\* the words parse() finds in a line; the empty line has none
WordCount(l) == IF l.cmd = "" THEN 0 ELSE 1 + Len(l.a)

\* atoi(argument_words[n]) when the line has no such word: the entry is the end
\* marker or a pointer left by an earlier line, and a small number is read
MissingArg == {0, 1, 5}
ArgRead(l, n) == IF n <= Len(l.a) THEN {Atoi(l.a[n])} ELSE MissingArg

\* the branch of the "if (strcmp(...) == 0) ... else if ..." chain that the
\* first word of a line selects; "" when no branch matches
DispatchWithElse(w) == IF w \in RunCmds THEN w ELSE "retract"
Dispatch(w) == IF w \in RunCmds THEN w ELSE ""

\* "if (Serial.available())" finds a complete line: parse() and the strcmp chain
LoopRead ==
  /\ pc = "loop" /\ rx # <<>> /\ MainRuns
  /\ LET l == Head(rx)
         c == Dispatch(l.cmd)
     IN  IF c # ""
           THEN /\ \E a1 \in ArgRead(l, 1), a2 \in ArgRead(l, 2) :
                     cur' = [cmd |-> c, sid |-> a1,
                             val |-> IF c = "set_sampling" THEN a1
                                     ELSE IF ReadsTwo(c) THEN a2 ELSE 0]
                /\ pc' = "cmd"
                /\ pre' = Registry
           ELSE /\ pc' = AfterLine
                /\ UNCHANGED <<cur, pre>>
  /\ k' = 0 /\ sub' = 0
  /\ rx' = Tail(rx)
  /\ argc' = WordCount(Head(rx))
  /\ UNCHANGED <<stuck, parseVars, outVars, script, ready, topoVars, sampling, axisVars, isrVars,
                 now, wr, onestep, hist, last>>

\* the command's loop is over
CmdDone ==
  /\ pc = "cmd" /\ k >= Iterations(cur) /\ MainRuns
  /\ pc' = AfterLine
  /\ k' = 0 /\ sub' = 0
  /\ last' = cur
  /\ pre' = NoPre
  /\ UNCHANGED <<envVars, hostVars, cur, ready, topoVars, sampling, axisVars, isrVars, now, wr,
                 onestep, hist>>

InCmd(name) == pc = "cmd" /\ cur.cmd = name /\ k < Iterations(cur) /\ MainRuns

\* prot_steps[i] = steps
CmdSetProt ==
  /\ InCmd("set_prot")
  /\ prot_steps' = [prot_steps EXCEPT ![Axis] = cur.val]
  /\ hist' = Started(Axis)
  /\ k' = k + 1
  /\ UNCHANGED <<envVars, hostVars, pc, cur, sub, ready, topoVars, sampling, ret_steps,
                 whisking_status, accel_steppers, isrVars, now, wr, onestep, pre, last>>

\* ret_steps[i] = steps
CmdSetRet ==
  /\ InCmd("set_ret")
  /\ ret_steps' = [ret_steps EXCEPT ![Axis] = cur.val]
  /\ hist' = Started(Axis)
  /\ k' = k + 1
  /\ UNCHANGED <<envVars, hostVars, pc, cur, sub, ready, topoVars, sampling, prot_steps,
                 whisking_status, accel_steppers, isrVars, now, wr, onestep, pre, last>>

\* accel_steppers[i]->setMaxSpeed(speed)
CmdSetSpeed ==
  /\ InCmd("set_speed")
  /\ accel_steppers' = [accel_steppers EXCEPT ![Axis] = SetMaxSpeed(@, cur.val)]
  /\ hist' = Started(Axis)
  /\ k' = k + 1
  /\ UNCHANGED <<envVars, hostVars, pc, cur, sub, ready, topoVars, sampling, prot_steps, ret_steps,
                 whisking_status, isrVars, now, wr, onestep, pre, last>>

\* accel_steppers[i]->setAcceleration(accel)
CmdSetAccel ==
  /\ InCmd("set_accel")
  /\ accel_steppers' = [accel_steppers EXCEPT ![Axis] = SetAcceleration(@, cur.val)]
  /\ hist' = Started(Axis)
  /\ k' = k + 1
  /\ UNCHANGED <<envVars, hostVars, pc, cur, sub, ready, topoVars, sampling, prot_steps, ret_steps,
                 whisking_status, isrVars, now, wr, onestep, pre, last>>

\* whisking_status[i] = 2; accel_steppers[i]->moveTo(prot_steps[i])
CmdWhisk ==
  /\ InCmd("whisk")
  /\ IF sub = 0
       THEN /\ whisking_status' = [whisking_status EXCEPT ![Axis] = 2]
            /\ hist' = Noted(Started(Axis), Axis, 2)
            /\ sub' = 1
            /\ UNCHANGED <<k, accel_steppers>>
       ELSE /\ accel_steppers' = [accel_steppers EXCEPT ![Axis] = MoveTo(@, prot_steps[Axis])]
            /\ sub' = 0 /\ k' = k + 1
            /\ UNCHANGED <<whisking_status, hist>>
  /\ UNCHANGED <<envVars, hostVars, pc, cur, ready, topoVars, sampling, prot_steps, ret_steps,
                 isrVars, now, wr, onestep, pre, last>>

\* sampling = atoi(argument_words[1])
CmdSetSampling ==
  /\ InCmd("set_sampling")
  /\ sampling' = cur.val
  /\ k' = k + 1
  /\ UNCHANGED <<envVars, hostVars, pc, cur, sub, ready, topoVars, axisVars, isrVars, now, wr,
                 onestep, ghostVars>>

\* accel_steppers[i]->stop(); whisking_status[i] = 1
CmdHalt ==
  /\ InCmd("halt_whisk")
  /\ IF sub = 0
       THEN /\ accel_steppers' = [accel_steppers EXCEPT ![Axis] = Stop(@)]
            /\ hist' = Started(Axis)
            /\ sub' = 1
            /\ UNCHANGED <<k, whisking_status>>
       ELSE /\ whisking_status' = [whisking_status EXCEPT ![Axis] = 1]
            /\ hist' = Noted(hist, Axis, 1)
            /\ sub' = 0 /\ k' = k + 1
            /\ UNCHANGED accel_steppers
  /\ UNCHANGED <<envVars, hostVars, pc, cur, ready, topoVars, sampling, prot_steps, ret_steps,
                 isrVars, now, wr, onestep, pre, last>>

\* accel_steppers[i]->moveTo(ret_steps[i]); whisking_status[i] = 1
CmdRetract ==
  /\ InCmd("retract")
  /\ IF sub = 0
       THEN /\ accel_steppers' = [accel_steppers EXCEPT ![Axis] = MoveTo(@, ret_steps[Axis])]
            /\ hist' = Started(Axis)
            /\ sub' = 1
            /\ UNCHANGED <<k, whisking_status>>
       ELSE /\ whisking_status' = [whisking_status EXCEPT ![Axis] = 1]
            /\ hist' = Noted(hist, Axis, 1)
            /\ sub' = 0 /\ k' = k + 1
            /\ UNCHANGED accel_steppers
  /\ UNCHANGED <<envVars, hostVars, pc, cur, ready, topoVars, sampling, prot_steps, ret_steps,
                 isrVars, now, wr, onestep, pre, last>>

(***************************************************************************)
(* home_stepper(stepper_id)                                                *)
(***************************************************************************)
\* the call: home_stepper(i)
CmdHome ==
  /\ InCmd("home_stepper")
  /\ pc' = "home"
  /\ hist' = Started(Axis)
  /\ onestep' = <<>>
  /\ UNCHANGED <<envVars, hostVars, cur, k, sub, ready, topoVars, sampling, axisVars, isrVars,
                 now, wr, pre, last>>

\* the direction of a homing step: FORWARD if is_left, BACKWARD otherwise
HomeDirectionFlipped(a) == IF is_left[a] # 0 THEN "BACKWARD" ELSE "FORWARD"
HomeDirection(a) == IF is_left[a] # 0 THEN "FORWARD" ELSE "BACKWARD"

\* digitalRead(limit_pins[stepper_id]) can read LOW: the switch of axis a works
LimitTimeout(a) == TRUE
LimitTriggers(a) == a \notin stuck

\* digitalRead(limit_pins[stepper_id]) == HIGH: onestep(direction, SINGLE); delay(25).
\* onestep holds the axis, the direction and the parity of the number of steps
\* issued since home_stepper was called.
HomeStep ==
  /\ pc = "home" /\ sub = 0 /\ MainRuns
  /\ onestep' = <<Axis, HomeDirection(Axis), IF onestep = <<>> THEN 1 ELSE 1 - onestep[3]>>
  /\ UNCHANGED <<envVars, hostVars, ctlVars, ready, topoVars, sampling, axisVars, isrVars, now, wr,
                 ghostVars>>

\* the limit switch reads LOW: accel_steppers[stepper_id]->setCurrentPosition(0).
\* A store that changes more than one byte of _currentPos is not atomic.
HomeExit ==
  /\ pc = "home" /\ sub = 0 /\ MainRuns
  /\ LimitTriggers(Axis)
  /\ LET s == accel_steppers[Axis]
     IN  IF Torn(s.pos, 0) = {}
           THEN /\ accel_steppers' = [accel_steppers EXCEPT ![Axis] = SetCurrentPosition(s, 0)]
                /\ pc' = "cmd" /\ k' = k + 1
                /\ UNCHANGED <<sub, wr>>
           ELSE /\ \E t \in Torn(s.pos, 0) :
                     accel_steppers' = [accel_steppers EXCEPT ![Axis].pos = t]
                /\ wr' = [on |-> TRUE, ax |-> Axis, old |-> s, new |-> 0]
                /\ sub' = 1
                /\ UNCHANGED <<pc, k>>
  /\ UNCHANGED <<envVars, hostVars, cur, ready, topoVars, sampling, prot_steps, ret_steps,
                 whisking_status, isrVars, now, onestep, ghostVars>>

\* the rest of the store, and of setCurrentPosition
HomeWrite ==
  /\ pc = "home" /\ sub = 1 /\ MainRuns
  /\ accel_steppers' = [accel_steppers EXCEPT ![Axis] = SetCurrentPosition(wr.old, 0)]
  /\ wr' = NoWrite
  /\ pc' = "cmd" /\ k' = k + 1 /\ sub' = 0
  /\ UNCHANGED <<envVars, hostVars, cur, ready, topoVars, sampling, prot_steps, ret_steps,
                 whisking_status, isrVars, now, onestep, ghostVars>>

(***************************************************************************)
(* loop(): the transition and motion pass over the declared axes.          *)
(***************************************************************************)
\* "if (Serial.available())" finds nothing: the pass begins
LoopIdle ==
  /\ pc = "loop" /\ rx = <<>> /\ MainRuns
  /\ pc' = "pass" /\ k' = 0 /\ sub' = 0
  /\ UNCHANGED <<envVars, hostVars, cur, ready, topoVars, sampling, axisVars, isrVars, now, wr,
                 onestep, ghostVars>>

\* "whisking_status[i]--"
NextPhaseToIdle(v) == 0
NextPhaseUp(v) == 3 - v
NextPhaseTwice(v) == v - 2
NextPhase(v) == v - 1

\* "if (whisking_status[i]) if (distanceToGo() == 0) whisking_status[i]--"
PassCheck ==
  /\ pc = "pass" /\ k < num_steppers /\ sub = 0 /\ MainRuns
  /\ IF whisking_status[k] # 0 /\ DistanceToGo(accel_steppers[k]) = 0
       THEN /\ whisking_status' = [whisking_status EXCEPT ![k] = NextPhase(@)]
            /\ hist' = Noted(hist, k, NextPhase(whisking_status[k]))
            /\ sub' = IF NextPhase(whisking_status[k]) # 0 THEN 1 ELSE 2
       ELSE /\ sub' = 2
            /\ UNCHANGED <<whisking_status, hist>>
  /\ UNCHANGED <<envVars, hostVars, pc, cur, k, ready, topoVars, sampling, prot_steps, ret_steps,
                 accel_steppers, isrVars, now, wr, onestep, pre, last>>

\* "if (whisking_status[i]) accel_steppers[i]->moveTo(ret_steps[i])"
PassMove ==
  /\ pc = "pass" /\ k < num_steppers /\ sub = 1 /\ MainRuns
  /\ accel_steppers' = [accel_steppers EXCEPT ![k] = MoveTo(@, ret_steps[k])]
  /\ sub' = 2
  /\ UNCHANGED <<envVars, hostVars, pc, cur, k, ready, topoVars, sampling, prot_steps, ret_steps,
                 whisking_status, isrVars, now, wr, onestep, ghostVars>>

\* accel_steppers[i]->run(): no step is due yet, or the motor is at rest
PassRunSkip ==
  /\ pc = "pass" /\ k < num_steppers /\ sub = 2 /\ MainRuns
  /\ k' = k + 1 /\ sub' = 0
  /\ UNCHANGED <<envVars, hostVars, pc, cur, ready, topoVars, sampling, axisVars, isrVars, now, wr,
                 onestep, ghostVars>>

\* accel_steppers[i]->run(): a step is due.  A store that changes more than one
\* byte of _currentPos is not atomic.
PassRunStep ==
  /\ pc = "pass" /\ k < num_steppers /\ sub = 2 /\ MainRuns
  /\ accel_steppers[k].spd # 0
  /\ LET s == accel_steppers[k]
         n == StepOnce(s)
     IN  IF Torn(s.pos, n.pos) = {}
           THEN /\ accel_steppers' = [accel_steppers EXCEPT ![k] = n]
                /\ k' = k + 1 /\ sub' = 0
                /\ UNCHANGED wr
           ELSE /\ \E t \in Torn(s.pos, n.pos) :
                     accel_steppers' = [accel_steppers EXCEPT ![k].pos = t]
                /\ wr' = [on |-> TRUE, ax |-> k, old |-> s, new |-> n.pos]
                /\ sub' = 3
                /\ UNCHANGED k
  /\ UNCHANGED <<envVars, hostVars, pc, cur, ready, topoVars, sampling, prot_steps, ret_steps,
                 whisking_status, isrVars, now, onestep, ghostVars>>

\* the rest of the store, and computeNewSpeed()
PassWrite ==
  /\ pc = "pass" /\ sub = 3 /\ MainRuns
  /\ accel_steppers' = [accel_steppers EXCEPT ![k] = StepOnce(wr.old)]
  /\ wr' = NoWrite
  /\ k' = k + 1 /\ sub' = 0
  /\ UNCHANGED <<envVars, hostVars, pc, cur, ready, topoVars, sampling, prot_steps, ret_steps,
                 whisking_status, isrVars, now, onestep, ghostVars>>

\* the for loop is over: loop() returns and is called again
PassDone ==
  /\ pc = "pass" /\ k >= num_steppers /\ MainRuns
  /\ pc' = "loop" /\ k' = 0 /\ sub' = 0
  /\ UNCHANGED <<envVars, hostVars, cur, ready, topoVars, sampling, axisVars, isrVars, now, wr,
                 onestep, ghostVars>>

(***************************************************************************)
(* timerIsr() and the millisecond clock.  Interrupts are disabled inside   *)
(* the handler: neither the main program nor the clock advances.           *)
(***************************************************************************)
\* analogRead(analogPins[i])
Readings == {0, 1023}

\* the millis() interrupt
ClockFree == TRUE
ClockStopped == isr # "run"

Clock ==
  /\ isr # "off"
  /\ ClockStopped
  /\ now' = (now + 1) % ClockMod
  /\ UNCHANGED <<envVars, hostVars, ctlVars, ready, topoVars, sampling, axisVars, isrVars, wr,
                 onestep, ghostVars>>

\* "if (sampling)"
EmitsAlways == TRUE
Emits == sampling # 0

\* Timer1 fires, whatever the sampling flag
Tick ==
  /\ isr = "idle"
  /\ isr' = "run" /\ ich' = 0 /\ frame' = <<>>
  /\ UNCHANGED <<envVars, hostVars, ctlVars, ready, topoVars, sampling, axisVars, now, wr, onestep,
                 ghostVars>>

\* one turn of "for (int i = 0; i < num_whiskers; i++)": the six fields of a line
Record(i, reading) ==
  [timestamp |-> now,
   whisker_id |-> i,
   stepper_id |-> whisker_col_id[i],
   whisking_status |-> whisking_status[whisker_col_id[i]],
   curr_steps |-> accel_steppers[whisker_col_id[i]].pos,
   sensor_out |-> reading]

IsrEmit ==
  /\ isr = "run" /\ Emits /\ ich < num_whiskers
  /\ \E r \in Readings : frame' = Append(frame, Record(ich, r))
  /\ ich' = ich + 1
  /\ UNCHANGED <<envVars, hostVars, ctlVars, ready, topoVars, sampling, axisVars, isr, now, wr,
                 onestep, ghostVars>>

\* the handler returns
IsrReturn ==
  /\ isr = "run" /\ (~Emits \/ ich >= num_whiskers)
  /\ isr' = "idle" /\ ich' = 0 /\ frame' = <<>>
  /\ UNCHANGED <<envVars, hostVars, ctlVars, ready, topoVars, sampling, axisVars, now, wr, onestep,
                 ghostVars>>

(***************************************************************************)
(* Specifications.                                                         *)
(***************************************************************************)
Main ==
  \/ Boot \/ SetupS \/ SetupP \/ SetupC \/ SetupOther \/ SetupDone
  \/ LoopRead \/ CmdDone
  \/ CmdSetProt \/ CmdSetRet \/ CmdSetSpeed \/ CmdSetAccel \/ CmdWhisk \/ CmdSetSampling
  \/ CmdHalt \/ CmdRetract \/ CmdHome \/ HomeStep \/ HomeExit \/ HomeWrite
  \/ LoopIdle \/ PassCheck \/ PassMove \/ PassRunSkip \/ PassRunStep \/ PassWrite \/ PassDone

Interrupt == Clock \/ Tick \/ IsrEmit \/ IsrReturn

Host == Send \/ HostWait

Next == Host \/ Main \/ Interrupt

\* the main program alone: the handler writes nothing the main program reads
NextMain == Host \/ Main

(***************************************************************************)
(* The lines the host sends.                                               *)
(***************************************************************************)
S2x2 == Line("s", <<0, 12, 22, 0>>)
S1x1 == Line("s", <<0, 1, 1, 0>>)
S1x2L == Line("s", <<1, 1, 2, 1>>)
P == Line("p", <<10000>>)
C == Line("c", <<>>)
Wait == Line("#wait", <<>>)
Cmd1(c, sid) == Line(c, <<sid>>)
Cmd2(c, sid, v) == Line(c, <<sid, v>>)

\* two axes with two channels each, targets shortened to 4 and 2
PreSmall == <<S2x2, C, Wait, Cmd2("set_prot", ALL_FLAG, 4), Cmd2("set_ret", ALL_FLAG, 2)>>

Sids == {0, 1, ALL_FLAG}
MotionLines == { Cmd1(c, sid) : c \in {"whisk", "halt_whisk", "retract", "home_stepper"},
                                sid \in Sids }
TuneLines == { Cmd2("set_accel", 0, 250), Cmd2("set_accel", ALL_FLAG, 250),
               Cmd2("set_speed", 1, 20), Cmd2("set_speed", ALL_FLAG, 3000) }
StepLines == { Cmd2("set_prot", 0, 5000), Cmd2("set_prot", 1, 3), Cmd2("set_prot", ALL_FLAG, 200),
               Cmd2("set_prot", ALL_FLAG, 5), Cmd2("set_prot", 0, 1),
               Cmd2("set_ret", 0, 3), Cmd2("set_ret", ALL_FLAG, 1), Cmd2("set_ret", 1, 200),
               Cmd2("set_ret", ALL_FLAG, 3), Cmd2("set_ret", 1, 0 - 5) }
OtherLines == { Cmd1("set_sampling", 1), S1x1 }
MainLines == MotionLines \cup TuneLines \cup StepLines \cup OtherLines

\* axis 0 on the left, axis 1 on the right, one whisker each
S2xLR == Line("s", <<0, 12, 11, 10>>)

\* axis 1 retracts to its target 0 and the acceleration is cut on the way
Overshoot == <<Cmd2("set_prot", 1, 4), Cmd1("whisk", 1), Cmd2("set_accel", 1, 100),
               Cmd1("home_stepper", 1)>>

ShieldLines == { Line("s", <<0, md, wd, sd>>) : md \in {0, 1, 10, 12, 21},
                                               wd \in {0, 2, 20, 12, 31},
                                               sd \in {0, 1, 10, 11} }

\* sampling periods in microseconds
Periods == {1, 500, 30000, 32767, 32768, 40000, 65536, 100000}

ScriptsMain ==
  { <<l, C>> : l \in ShieldLines } \cup
  { <<S1x1, Line("p", <<n>>), C>> : n \in Periods } \cup
  { PreSmall \o <<a, b>> : a \in MainLines, b \in MainLines }
  \cup { <<S1x1, C, Wait, Cmd1("whisk", 0)>>,
         <<S2x2, P, Line("x", <<>>), C, S1x2L>>,
         <<S2x2, C, Wait, Cmd2("set_prot", ALL_FLAG, 150), Cmd2("set_prot", 0, 5000)>>,
         <<S2x2, C, Wait>> \o Overshoot,
         <<S2xLR, C, Wait, Cmd1("home_stepper", ALL_FLAG)>>,
         PreSmall \o <<Line("whisk", <<>>)>>,
         PreSmall \o <<Line("set_prot", <<0>>)>>,
         <<S1x1, Line("s", <<1, 12, 21, 1>>), C>>,
         <<S1x1, C, Cmd1("whisk", 0), Cmd1("set_sampling", 1)>>,
         PreSmall \o <<Cmd2("set_prot", 5, 10), Cmd2("set_ret", 2, 7)>>,
         <<Line("s", <<0, 12, 99, 0>>)>>,
         <<S1x1, Line("s", <<40, 1, 1, 0>>)>>,
         <<S1x1, C, Wait, Cmd2("set_prot", 0, 3), Cmd2("set_ret", 0, 3), Cmd1("whisk", 0)>>,
         <<Line("p", <<40000>>), S1x1, Line("p", <<500>>), C>>,
         <<S1x1, Cmd2("set_prot", 0, 5), Line("x", <<>>), Cmd1("whisk", 0), C>>,
         <<S1x2L, Line("s", <<0, 20, 32, 10>>), Line("s", <<1, 1, 1, 1>>), C>>,
         PreSmall \o <<Line("", <<>>), Line("set_speed", <<>>)>> }

InitMain == InitFirmware /\ NoParse /\ stuck = {} /\ script \in ScriptsMain

SpecMain == InitMain /\ [][NextMain]_vars

\* the main program is never suspended for ever, a limit switch that works
\* is reached by the homing steps, and a motor that has a step to take is
\* eventually given the time to take it (axes 0 and 1 are the ones the lines
\* below address)
Fairness ==
  /\ WF_vars(Main)
  /\ WF_vars(HomeExit)
  /\ \A i \in {0, 1} : SF_vars(PassRunStep /\ k = i)

LiveLines == { Cmd1("whisk", 0), Cmd1("whisk", ALL_FLAG), Cmd1("halt_whisk", 0),
               Cmd1("halt_whisk", ALL_FLAG), Cmd1("retract", 0), Cmd2("set_accel", 0, 250) }

ScriptsLive ==
  { PreSmall \o <<a, b>> : a \in LiveLines, b \in LiveLines }
  \cup { <<S1x1, C, Wait, Cmd1("whisk", 0)>>,
         <<S2x2, P, Line("x", <<>>), C, S1x2L>>,
         <<S2x2, C, Wait>> \o Overshoot,
         PreSmall \o <<Cmd2("set_ret", 0, 3), Cmd2("set_speed", 0, 20),
                        Cmd1("set_sampling", 1), Cmd1("whisk", 0)>> }

InitLive == InitFirmware /\ NoParse /\ stuck = {} /\ script \in ScriptsLive

SpecLive == InitLive /\ [][NextMain]_vars /\ Fairness

\* homing with limit switches that may never trigger
ScriptsHome ==
  { <<S2x2, P, Line("x", <<>>), C, S1x2L>>,
    <<S2x2, C, Wait>> \o Overshoot,
    <<S2xLR, C, Wait, Cmd1("home_stepper", ALL_FLAG)>>,
    PreSmall \o <<Cmd2("set_speed", 0, 20), Cmd1("set_sampling", 1), Cmd1("whisk", 0),
                  Cmd1("home_stepper", ALL_FLAG), Cmd1("halt_whisk", 0), Cmd1("retract", 0)>> }

InitHome == InitFirmware /\ NoParse /\ stuck \in SUBSET {0, 1} /\ script \in ScriptsHome

SpecHome == InitHome /\ [][NextMain]_vars /\ Fairness

S2x1 == Line("s", <<0, 12, 11, 0>>)

Scripts ==
  { <<S2x1, C, Wait, Cmd1("set_sampling", 1)>> \o Overshoot,
    <<S1x2L, P, Line("x", <<>>), C, Wait,
      Cmd2("set_prot", ALL_FLAG, 25), Cmd2("set_ret", 0, 23),
      Cmd2("set_speed", ALL_FLAG, 3000), Cmd1("whisk", ALL_FLAG),
      Cmd1("set_sampling", 1), Cmd1("halt_whisk", 0), Cmd1("retract", ALL_FLAG),
      Cmd1("set_sampling", 0)>>,
    <<S1x1, C, Wait, Cmd1("set_sampling", 1), Line("x", <<>>), Cmd2("set_prot", 0, 5000),
      Line("whisk", <<>>)>> }

Init == InitFirmware /\ NoParse /\ stuck = {} /\ script \in Scripts

Spec == Init /\ [][Next]_vars

(***************************************************************************)
(* parse(line, argument_words, maxArgs) on its own.  A line is a sequence  *)
(* of characters; an entry of argument_words is the position in the line   *)
(* it points to, 0 for the end marker.                                     *)
(***************************************************************************)
IsDelim(c) == c \in {",", " ", "\t", "\n"}

\* "while (*line == ',' || ...) *line++ = '\0'": where the scan stops
RECURSIVE SkipDelims(_, _)
SkipDelims(b, p) == IF p <= Len(b) /\ IsDelim(b[p]) THEN SkipDelims(b, p + 1) ELSE p

\* "while (*line != '\0' && *line != ',' ...) line++": where the scan stops
RECURSIVE SkipWord(_, _)
SkipWord(b, p) == IF p <= Len(b) /\ ~IsDelim(b[p]) THEN SkipWord(b, p + 1) ELSE p

\* one turn of "while (*line != '\0')"
ParseWord ==
  /\ pst = "scan" /\ lp <= Len(buf)
  /\ LET p1 == SkipDelims(buf, lp)
     IN  /\ buf' = [i \in 1 .. Len(buf) |-> IF lp <= i /\ i < p1 THEN "NUL" ELSE buf[i]]
         /\ argw' = Append(argw, p1)
         /\ IF Len(argw) + 1 = MaxArgs - 1
              THEN pst' = "break" /\ lp' = p1
              ELSE pst' = "scan" /\ lp' = SkipWord(buf, p1)
  /\ UNCHANGED <<hostVars, ctlVars, ready, topoVars, sampling, axisVars, isrVars, now, wr,
                 onestep, ghostVars, stuck, argc, outVars>>

\* "*argument_words = '\0'": the end marker
ParseEnd ==
  /\ \/ pst = "break"
     \/ pst = "scan" /\ lp > Len(buf)
  /\ argw' = Append(argw, 0)
  /\ pst' = "done"
  /\ UNCHANGED <<hostVars, ctlVars, ready, topoVars, sampling, axisVars, isrVars, now, wr,
                 onestep, ghostVars, stuck, argc, outVars, buf, lp>>

NextParse == ParseWord \/ ParseEnd

\* n words, d between them
RECURSIVE Words(_, _)
Words(n, d) ==
  IF n = 0 THEN <<>> ELSE IF n = 1 THEN <<"a">> ELSE Words(n - 1, d) \o d \o <<"a">>

LinesParse ==
  { l \in { lead \o Words(n, d) \o trail :
              n \in 0 .. MaxWords, d \in {<<" ">>, <<",">>, <<",", " ">>, <<"\t">>},
              lead \in {<<>>, <<" ">>}, trail \in {<<>>, <<",">>} } :
      Len(l) <= BufferSize - 1 }

InitParse ==
  /\ InitFirmware /\ stuck = {} /\ script = <<>>
  /\ buf \in LinesParse /\ lp = 1 /\ argw = <<>> /\ pst = "scan"

SpecParse == InitParse /\ [][NextParse]_vars

(***************************************************************************)
(* Properties.                                                             *)
(***************************************************************************)
RECURSIVE SumTo(_, _)
SumTo(d, n) == IF n = 0 THEN 0 ELSE SumTo(d, n - 1) + d[n]

\* the axis that channel c belongs to when channels are dealt out in
\* declaration order
Owner(c) == CHOOSE a \in 0 .. (Len(decl) - 1) : SumTo(decl, a) <= c /\ c < SumTo(decl, a + 1)

\* what an axis reports as "its position": the value before or after a store
\* that is under way
HeldPosition(a) ==
  IF wr.on /\ wr.ax = a THEN {wr.old.pos, wr.new} ELSE {accel_steppers[a].pos}

Topology == <<num_shields, num_steppers, num_whiskers, whisker_col_id, is_left>>

\* C2: every record written in a tick carries the axis bound to its channel and
\* the phase and the position that this axis holds while the main program is
\* suspended, so two channels of one axis report the same phase and position
C2_TickConsistent ==
  isr = "run" =>
    \A j \in 1 .. Len(frame) :
      LET r == frame[j]
          a == whisker_col_id[r.whisker_id]
      IN  /\ r.stepper_id = a
          /\ r.whisking_status = whisking_status[a]
          /\ r.curr_steps \in HeldPosition(a)
C2_Witness ==
  /\ isr = "run" /\ wr.on /\ pc = "pass" /\ Len(frame) >= 1
  /\ frame[1].stepper_id = wr.ax
  /\ frame[1].curr_steps \notin {wr.old.pos, wr.new}

\* the lines written so far in the running tick: one per channel handled, in
\* ascending channel order, six fields each, one timestamp
C3_Lines ==
  isr = "run" =>
    /\ Len(frame) = ich /\ ich <= num_whiskers
    /\ \A j \in 1 .. Len(frame) :
         /\ DOMAIN frame[j] = {"timestamp", "whisker_id", "stepper_id", "whisking_status",
                               "curr_steps", "sensor_out"}
         /\ frame[j].whisker_id = j - 1
         /\ frame[j].timestamp = frame[1].timestamp

\* C3: a tick that fires with sampling set writes exactly one line per declared
\* channel, channels 0 .. num_whiskers-1 in ascending order, six fields each,
\* all with the same timestamp
C3_OneLinePerChannel ==
  /\ []C3_Lines
  /\ [][isr = "run" /\ isr' = "idle" /\ sampling # 0 => Len(frame) = num_whiskers]_vars
C3_Witness ==
  /\ isr = "run" /\ sampling # 0 /\ num_whiskers = 2 /\ Len(frame) = 2
  /\ frame[1].timestamp = 1 /\ frame[2].whisker_id = 1

\* C7: once the "c" line has been processed, no later line changes the number
\* of shields, axes or channels, a channel's axis or an axis's orientation
C7_TopologyFixed == [][setup_complete # 0 => UNCHANGED Topology]_vars
C7_Witness ==
  /\ setup_complete # 0 /\ script = <<>> /\ rx = <<>>
  /\ decl = <<2, 2, 2>> /\ num_shields = 2 /\ num_steppers = 3 /\ num_whiskers = 6

\* C8: after bring-up, channel c belongs to the axis a with
\* w_0 + ... + w_(a-1) <= c < w_0 + ... + w_a
C8_DeclarationOrder ==
  pc \notin {"boot", "setup"} =>
    \A c \in Channels : c < num_whiskers => whisker_col_id[c] = Owner(c)
C8_Witness ==
  /\ pc = "loop" /\ decl = <<2, 2>> /\ num_whiskers = 4
  /\ whisker_col_id[0] = 1 /\ whisker_col_id[1] = 1
  /\ whisker_col_id[2] = 0 /\ whisker_col_id[3] = 0

\* a command line has been handled completely
LineDone == pc = "cmd" /\ pc' \notin {"cmd", "home"}

\* the axes a command is addressed to
Addressed(c, i) == IF c.sid = ALL_FLAG THEN i < num_steppers ELSE i = c.sid

\* the targets after set_prot / set_ret c, given the targets before it
StepsAfter(c, name, before) ==
  [i \in Slots |-> IF c.cmd = name /\ c.val > 1 /\ c.val < MAX_STEPS /\ Addressed(c, i)
                     THEN c.val ELSE before[i]]

C9_CommandsBeforePass ==
  /\ [][pc # "pass" /\ pc' = "pass" =>
          /\ rx = <<>>
          /\ (last.cmd = "set_speed" /\ last.sid = ALL_FLAG =>
                \A i \in Slots : i < num_steppers =>
                   accel_steppers[i].maxSpeed = Abs(last.val))]_vars
  /\ [][pc = "cmd" /\ cur.cmd = "set_speed" =>
          \A i \in Slots : /\ accel_steppers'[i].pos = accel_steppers[i].pos
                            /\ accel_steppers'[i].spd = accel_steppers[i].spd]_vars
C9_Witness ==
  /\ pc = "pass" /\ k = 0 /\ sub = 0
  /\ last = [cmd |-> "set_speed", sid |-> ALL_FLAG, val |-> 3000]
  /\ num_steppers = 2
  /\ accel_steppers[0].maxSpeed = 3000 /\ accel_steppers[1].maxSpeed = 3000
  /\ accel_steppers[0].spd # 0

\* the registry after command c has been issued for the one axis a
OneAxis(c, reg, a) ==
  CASE c.cmd = "set_prot" ->
         IF c.val > 1 /\ c.val < MAX_STEPS THEN [reg EXCEPT !.prot[a] = c.val] ELSE reg
    [] c.cmd = "set_ret" ->
         IF c.val > 1 /\ c.val < MAX_STEPS THEN [reg EXCEPT !.ret[a] = c.val] ELSE reg
    [] c.cmd = "set_speed" -> [reg EXCEPT !.drv[a] = SetMaxSpeed(@, c.val)]
    [] c.cmd = "set_accel" -> [reg EXCEPT !.drv[a] = SetAcceleration(@, c.val)]
    [] c.cmd = "whisk" ->
         [reg EXCEPT !.status[a] = 2, !.drv[a] = MoveTo(@, reg.prot[a])]
    [] c.cmd = "home_stepper" -> [reg EXCEPT !.drv[a] = SetCurrentPosition(@, 0)]
    [] c.cmd = "halt_whisk" -> [reg EXCEPT !.drv[a] = Stop(@), !.status[a] = 1]
    [] c.cmd = "retract" ->
         [reg EXCEPT !.drv[a] = MoveTo(@, reg.ret[a]), !.status[a] = 1]

\* ... and for each of the axes 0 .. n-1 in ascending order
RECURSIVE EachAxis(_, _, _)
EachAxis(c, reg, n) == IF n = 0 THEN reg ELSE OneAxis(c, EachAxis(c, reg, n - 1), n - 1)

\* C10: a command issued with the all-axes sentinel leaves the axis registry
\* as issuing it for each declared axis 0 .. N-1 in ascending order does, the
\* slots of undeclared axes included
C10_AllIsEachAxis ==
  [][LineDone /\ cur.sid = ALL_FLAG /\ cur.cmd # "set_sampling" =>
       /\ Registry = EachAxis(cur, pre, num_steppers)
       /\ \A i \in Slots : i >= num_steppers =>
            /\ prot_steps[i] = pre.prot[i] /\ ret_steps[i] = pre.ret[i]
            /\ whisking_status[i] = pre.status[i] /\ accel_steppers[i] = pre.drv[i]]_vars
C10_Witness ==
  /\ pc = "loop" /\ last = [cmd |-> "halt_whisk", sid |-> ALL_FLAG, val |-> 0]
  /\ num_steppers = 2
  /\ whisking_status[0] = 1 /\ whisking_status[1] = 1
  /\ hist[0].from = 2 /\ hist[0].mid /\ hist[1].from = 0

\* an axis halted in mid-protraction, with no later command for it, goes idle
HaltedGoesIdle(i) ==
  /\ hist[i].cmd = "halt_whisk" /\ hist[i].from = 2 /\ hist[i].mid
  /\ whisking_status[i] = 1 /\ whisking_status'[i] = 0

\* C4 as stated: after halt_whisk in mid-protraction the axis retracts, so that
\* its position when it next becomes idle equals its retraction target
C4_RetractsToTarget ==
  [][\A i \in Slots : HaltedGoesIdle(i) => accel_steppers'[i].pos = ret_steps[i]]_vars

\* C4: after halt_whisk in mid-protraction no move to the retraction target is
\* issued: the axis is retargeted to the nearest point it can stop at, and its
\* position when it next becomes idle is that point
C4_StopsAtNearestPoint ==
  /\ [](\A i \in Slots :
          hist[i].cmd = "halt_whisk" /\ hist[i].from = 2 /\ hist[i].mid =>
            accel_steppers[i].tgt = hist[i].stopAt)
  /\ [][\A i \in Slots : HaltedGoesIdle(i) =>
          accel_steppers'[i].pos = hist[i].stopAt]_vars
C4_Witness ==
  \E i \in Slots :
    /\ hist[i].cmd = "halt_whisk" /\ hist[i].from = 2 /\ hist[i].mid
    /\ hist[i].seq = <<1, 0>>
    /\ accel_steppers[i].pos = hist[i].stopAt
    /\ accel_steppers[i].pos # ret_steps[i]

\* the last command addressed to axis i was a whisk that found it idle
WhiskedFromIdle(i) == hist[i].cmd = "whisk" /\ hist[i].from = 0

\* C1: after a whisk addressed to an idle axis, and while no further command
\* for that axis arrives, its phase goes 0 -> 2 -> 1 -> 0 once, it reaches idle,
\* and its position when it becomes idle is its retraction target
C1_WhiskCycle ==
  /\ [](\A i \in Slots : WhiskedFromIdle(i) =>
          /\ hist[i].seq \in {<<2>>, <<2, 1>>, <<2, 1, 0>>}
          /\ whisking_status[i] = hist[i].seq[Len(hist[i].seq)])
  /\ [][\A i \in Slots :
          WhiskedFromIdle(i) /\ whisking_status[i] = 1 /\ whisking_status'[i] = 0 =>
            accel_steppers'[i].pos = ret_steps[i]]_vars
  /\ \A i \in {0, 1} :
       WhiskedFromIdle(i) ~> (~WhiskedFromIdle(i) \/ whisking_status[i] = 0)
C1_Witness ==
  /\ WhiskedFromIdle(0) /\ hist[0].seq = <<2, 1, 0>>
  /\ prot_steps[0] = 133 /\ ret_steps[0] = 22
  /\ whisking_status[0] = 0 /\ accel_steppers[0].pos = 22

\* the last command addressed to axis i was a halt_whisk
Halted(i) == hist[i].cmd = "halt_whisk"

\* C5: halt_whisk, whatever the axis's phase, retargets the axis to the nearest
\* point it can stop at and sets its phase to 1; the only transition the axis
\* takes after that is 1 -> 0, and it takes it with no further command
C5_HaltForcesRetracting ==
  /\ [](\A i \in Slots : Halted(i) =>
          /\ accel_steppers[i].tgt = hist[i].stopAt
          /\ hist[i].seq \in {<<>>, <<1>>, <<1, 0>>}
          /\ hist[i].seq = <<>> => pc = "cmd" /\ cur.cmd = "halt_whisk" /\ sub = 1
          /\ hist[i].seq # <<>> => whisking_status[i] = hist[i].seq[Len(hist[i].seq)])
  /\ \A i \in {0, 1} : Halted(i) ~> (~Halted(i) \/ whisking_status[i] = 0)
C5_Witness ==
  \E i \in Slots :
    /\ Halted(i) /\ hist[i].from = 1 /\ hist[i].mid
    /\ hist[i].seq = <<1, 0>> /\ whisking_status[i] = 0
    /\ accel_steppers[i].pos = hist[i].stopAt

\* the last command addressed to axis i was a retract
Retracted(i) == hist[i].cmd = "retract"

\* C11: retract, whatever the axis's phase, targets the retraction position and
\* sets the phase to 1; with no further command the axis never enters phase 2
\* and goes idle at its retraction target
C11_RetractGoesIdleAtTarget ==
  /\ [](\A i \in Slots : Retracted(i) =>
          /\ accel_steppers[i].tgt = ret_steps[i]
          /\ hist[i].seq \in {<<>>, <<1>>, <<1, 0>>}
          /\ hist[i].seq = <<>> => pc = "cmd" /\ cur.cmd = "retract" /\ sub = 1
          /\ hist[i].seq # <<>> => whisking_status[i] = hist[i].seq[Len(hist[i].seq)])
  /\ [][\A i \in Slots :
          Retracted(i) /\ whisking_status[i] = 1 /\ whisking_status'[i] = 0 =>
            accel_steppers'[i].pos = ret_steps[i]]_vars
  /\ \A i \in {0, 1} : Retracted(i) ~> (~Retracted(i) \/ whisking_status[i] = 0)
C11_Witness ==
  \E i \in Slots :
    /\ Retracted(i) /\ hist[i].from = 2 /\ hist[i].mid
    /\ hist[i].seq = <<1, 0>> /\ whisking_status[i] = 0
    /\ accel_steppers[i].pos = ret_steps[i] /\ ret_steps[i] = 2

\* C12: a phase becomes 2 only by the phase write of a whisk addressed to the
\* axis or to all axes, and a whisk leaves every addressed axis in phase 2 with
\* its protraction position as motion target, whatever the phase was
C12_OnlyWhiskProtracts ==
  /\ [][\A i \in Slots :
          whisking_status'[i] = 2 /\ whisking_status[i] # 2 =>
            pc = "cmd" /\ cur.cmd = "whisk" /\ Addressed(cur, i)]_vars
  /\ [][LineDone /\ cur.cmd = "whisk" =>
          \A i \in Slots : i < num_steppers /\ Addressed(cur, i) =>
            /\ whisking_status[i] = 2
            /\ accel_steppers[i].tgt = prot_steps[i]]_vars
C12_Witness ==
  /\ last.cmd = "whisk" /\ pc = "loop"
  /\ \E i \in Slots :
       /\ hist[i].cmd = "whisk" /\ hist[i].from = 1 /\ hist[i].mid
       /\ whisking_status[i] = 2 /\ accel_steppers[i].tgt = prot_steps[i]

\* C13: every declared axis's phase is 0, 1 or 2, in the registry and in every
\* line written by a tick, and the pass never decrements a phase that is 0
C13_PhaseRange ==
  /\ [](\A i \in Slots : whisking_status[i] \in {0, 1, 2})
  /\ [](\A j \in 1 .. Len(frame) : frame[j].whisking_status \in {0, 1, 2})
  /\ [][\A i \in Slots :
          pc = "pass" /\ whisking_status'[i] # whisking_status[i] =>
            /\ whisking_status[i] # 0
            /\ whisking_status'[i] = whisking_status[i] - 1]_vars
C13_Witness ==
  /\ isr = "run" /\ Len(frame) = 2
  /\ frame[1].whisking_status = 1 /\ frame[1].curr_steps > 0
  /\ pc = "pass"

\* C14: no line is written while the sampling flag is 0 or before bring-up is
\* over; set_sampling changes the flag and nothing else; the timer fires
\* whatever the flag, and a tick that finds the flag set writes its lines
C14_FlagGatesEmission ==
  /\ [](frame # <<>> => sampling # 0 /\ setup_complete # 0 /\ pc \notin {"boot", "setup"})
  /\ [][frame' # frame /\ frame' # <<>> => isr = "run" /\ sampling # 0]_vars
  /\ [][sampling' # sampling =>
          /\ pc = "cmd" /\ cur.cmd = "set_sampling" /\ sampling' = cur.val
          /\ UNCHANGED <<topoVars, sampling_period, axisVars, isrVars>>]_vars
  /\ [](isr = "idle" => ENABLED Tick)
  /\ [][isr = "run" /\ isr' = "idle" =>
          Len(frame) = IF sampling # 0 THEN num_whiskers ELSE 0]_vars
C14_Witness ==
  /\ isr = "run" /\ sampling = 0 /\ frame = <<>>
  /\ last = [cmd |-> "set_sampling", sid |-> 0, val |-> 0]
  /\ num_whiskers = 2

\* home_stepper is running for one axis
Homing == pc = "home"

\* C15: while home_stepper runs for one axis no line is dispatched, no phase
\* changes and no other axis's driver is touched; home_stepper ALL works on the
\* declared axes in ascending order, every lower axis being zeroed and every
\* higher one untouched while one axis is homed
C15_HomingIsExclusive ==
  /\ [][Homing =>
          /\ pc' \in {"home", "cmd"} /\ cur' = cur /\ rx' = rx
          /\ whisking_status' = whisking_status
          /\ \A i \in Slots :
               accel_steppers'[i] # accel_steppers[i] =>
                 /\ i = (IF cur.sid = ALL_FLAG THEN k ELSE cur.sid)
                 /\ accel_steppers'[i].tgt \in {accel_steppers[i].tgt, 0}
                 /\ accel_steppers'[i].spd \in {accel_steppers[i].spd, 0}]_vars
  /\ [][onestep' # onestep /\ onestep' # <<>> /\ cur.sid = ALL_FLAG =>
          onestep'[1] = k /\ k < num_steppers]_vars
  /\ [](Homing /\ cur.sid = ALL_FLAG =>
          \A i \in Slots :
            /\ i < k => /\ accel_steppers[i].pos = 0 /\ accel_steppers[i].tgt = 0
                        /\ accel_steppers[i].spd = 0
            /\ i > k => accel_steppers[i] = pre.drv[i])
C15_Witness ==
  /\ Homing /\ cur.sid = ALL_FLAG /\ k = 1 /\ onestep # <<>> /\ onestep[1] = 1
  /\ pre.drv[0].pos # 0 /\ accel_steppers[0].pos = 0
  /\ accel_steppers[1].spd # 0 /\ whisking_status[1] = 2

\* C16: home_stepper returns if the limit switch of the axis comes to read
\* triggered; if it never does, the routine goes on stepping for ever, and no
\* line is dispatched and no axis advanced from then on
C16_HomingBlocksUntilTriggered ==
  /\ (Homing /\ LET a == IF cur.sid = ALL_FLAG THEN k ELSE cur.sid IN a \notin stuck)
       ~> ~Homing
  /\ [][Homing /\ (IF cur.sid = ALL_FLAG THEN k ELSE cur.sid) \in stuck =>
          /\ pc' = "home" /\ UNCHANGED <<cur, k, rx, axisVars>>]_vars
  /\ \A b \in {0, 1} :
       (Homing /\ (IF cur.sid = ALL_FLAG THEN k ELSE cur.sid) \in stuck
          /\ (onestep = <<>> \/ onestep[3] = b))
         ~> (onestep # <<>> /\ onestep[3] = 1 - b)
C16_Witness ==
  /\ Homing /\ cur.sid = ALL_FLAG /\ k = 1 /\ 1 \in stuck /\ 0 \notin stuck
  /\ onestep # <<>> /\ onestep[3] = 0
  /\ script # <<>> /\ whisking_status[0] = 2

\* C17: home_stepper issues its steps only inside its loop, for the axis it was
\* called for and in the direction the axis's orientation flag selects; it may
\* return without a step; on return the axis's position is 0 and its phase, its
\* targets and every other axis are as they were
C17_HomingSteps ==
  /\ [][onestep' # onestep /\ onestep' # <<>> =>
          /\ Homing /\ sub = 0
          /\ onestep'[1] = (IF cur.sid = ALL_FLAG THEN k ELSE cur.sid)
          /\ onestep'[2] = (IF is_left[onestep'[1]] # 0 THEN "FORWARD" ELSE "BACKWARD")]_vars
  /\ [](Homing /\ sub = 0 /\ onestep = <<>> /\ isr # "run"
          /\ (IF cur.sid = ALL_FLAG THEN k ELSE cur.sid) \notin stuck => ENABLED HomeExit)
  /\ [][Homing /\ ~Homing' =>
          LET a == IF cur.sid = ALL_FLAG THEN k ELSE cur.sid
          IN  /\ accel_steppers'[a].pos = 0
              /\ whisking_status' = whisking_status
              /\ prot_steps' = prot_steps /\ ret_steps' = ret_steps
              /\ \A i \in Slots : i # a => accel_steppers'[i] = accel_steppers[i]]_vars
C17_Witness ==
  /\ pc = "cmd" /\ cur.cmd = "home_stepper" /\ k = 1
  /\ is_left[0] = 1 /\ onestep = <<0, "FORWARD", 0>>
  /\ accel_steppers[0].pos = 0

\* C18: parse() splits a line into at most 8 words and writes no entry outside
\* the 8 entries of argument_words, the end marker included
C18_ParseInBounds ==
  /\ Len(argw) <= ArgSlots
  /\ Cardinality({j \in 1 .. Len(argw) : argw[j] # 0}) <= ArgSlots
C18_Witness ==
  /\ pst = "done" /\ Len(argw) = 9 /\ argw[9] = 0
  /\ buf = <<"a", "NUL", "a", "NUL", "a", "NUL", "a", "NUL", "a", "NUL", "a", "NUL",
             "a", "NUL", "a">>

\* the words a command needs: its name, the axis or flag, and for some a value
Needs(c) == IF c \in {"set_prot", "set_ret", "set_speed", "set_accel"} THEN 3 ELSE 2

\* C19: a line that names a command but has fewer words than the command needs,
\* or an empty line, is not dispatched and changes no target, phase, driver or
\* the sampling flag
C19_ShortLinesIgnored ==
  /\ [][pc = "loop" /\ pc' = "cmd" => argc' >= Needs(cur'.cmd)]_vars
  /\ [][pc = "cmd" /\ argc < Needs(cur.cmd) =>
          UNCHANGED <<prot_steps, ret_steps, whisking_status, accel_steppers, sampling>>]_vars
C19_Witness ==
  /\ pc = "loop" /\ argc = 1 /\ last = [cmd |-> "whisk", sid |-> 0, val |-> 0]
  /\ pre = NoPre /\ whisking_status[0] = 2 /\ accel_steppers[0].tgt = prot_steps[0]

\* decimal digit of n at position d of an "s" argument: 1 is the tens digit,
\* 2 the ones digit
DigitAt(n, d) == IF d = 1 THEN (n \div 10) % 10 ELSE n % 10
\* the digit positions of a line that declare an axis, and how many of them
\* come before position d
Declared(l) == {d \in {1, 2} : DigitAt(Arg(l, 2), d) # 0}
Before(l, d) == Cardinality({e \in Declared(l) : e < d})

\* C20: an "s" line in bring-up adds one shield and one axis per non-zero
\* motor digit, tens digit first; each new axis gets the side digit of its
\* position as its orientation flag, and the channel count grows by the whisker
\* digits of the declared positions only
C20_ShieldLine ==
  [][pc = "setup" /\ rx # <<>> /\ Head(rx).cmd = "s" /\ rx' = Tail(rx) =>
       LET l == Head(rx)
       IN  /\ num_shields' = num_shields + 1
           /\ Len(motor_shields') = Len(motor_shields) + 1
           /\ num_steppers' = num_steppers + Cardinality(Declared(l))
           /\ Len(steppers') = num_steppers'
           /\ \A d \in Declared(l) :
                /\ steppers'[num_steppers + Before(l, d) + 1]
                     = <<num_shields, DigitAt(Arg(l, 2), d)>>
                /\ is_left'[num_steppers + Before(l, d)] = DigitAt(Arg(l, 4), d)
           /\ \A a \in Slots :
                a \notin num_steppers .. num_steppers' - 1 => is_left'[a] = is_left[a]
           /\ num_whiskers' = num_whiskers
                + (IF 1 \in Declared(l) THEN DigitAt(Arg(l, 3), 1) ELSE 0)
                + (IF 2 \in Declared(l) THEN DigitAt(Arg(l, 3), 2) ELSE 0)]_vars
\* after "s 1 1 2 1", the line "s 0 20 32 10" was processed: one more shield,
\* axis 1 on its port 2 with flag 1, three more channels; the ones whisker
\* digit 2 has motor digit 0 and added nothing
C20_Witness ==
  /\ num_shields = 2 /\ num_steppers = 2 /\ num_whiskers = 5
  /\ steppers = <<<<0, 1>>, <<1, 2>>>>
  /\ is_left[0] = 1 /\ is_left[1] = 1 /\ decl = <<2, 3>>

\* C21: the sentinel '!' is written exactly once, at power-up: nothing is
\* written to the serial channel before it and no input line is taken from the
\* receive buffer before it
C21_SentinelFirst ==
  /\ [](ready <= 1)
  /\ [](pc # "boot" => ready = 1)
  /\ [](ready = 0 => frame = <<>> /\ dbg = 0 /\ isr = "off")
  /\ [][ready' # ready => pc = "boot" /\ ready = 0]_vars
  /\ [][Len(rx') < Len(rx) => ready = 1]_vars
\* two lines were already waiting when the first of them is about to be read
C21_Witness ==
  /\ ready = 1 /\ pc = "setup" /\ Len(rx) = 2 /\ num_shields = 0 /\ setup_complete = 0

\* C22: the serial channel carries the startup sentinel and the lines of the
\* sampling handler only: every step that writes is the sentinel at power-up
\* or a turn of the handler, and no debug line is ever written
C22_NoCommandOutput ==
  /\ [](dbg = 0)
  /\ [][<<ready, dbg, frame>>' # <<ready, dbg, frame>> =>
          \/ pc = "boot" /\ frame' = frame /\ dbg' = dbg
          \/ isr = "run" /\ ready' = ready /\ dbg' = dbg]_vars
\* a telemetry line is being written while a run-time command is under way
C22_Witness ==
  /\ isr = "run" /\ Len(frame) = 1 /\ pc = "cmd" /\ cur.cmd = "halt_whisk"
  /\ ready = 1 /\ dbg = 0

\* C23: a line whose first word is not a command of the dispatcher that reads
\* it changes no target, phase, driver, sampling flag, sampling period or
\* topology, and starts no command: the line is dropped
C23_UnrecognizedIgnored ==
  [][/\ rx # <<>> /\ rx' = Tail(rx) /\ Head(rx).cmd # ""
     /\ \/ pc = "setup" /\ Head(rx).cmd \notin {"s", "p", "c"}
        \/ pc = "loop" /\ Head(rx).cmd \notin
             {"set_prot", "set_ret", "set_speed", "set_accel", "whisk", "set_sampling",
              "home_stepper", "halt_whisk", "retract"}
     => /\ UNCHANGED <<axisVars, sampling, topoVars, timer, cur>>
        /\ pc' \notin {"cmd", "home"}]_vars
\* the five words of an "s" line were read at run time and two axes are still
\* the whole topology
C23_Witness ==
  /\ pc = "loop" /\ argc = 5 /\ setup_complete = 1
  /\ num_shields = 1 /\ num_steppers = 2 /\ num_whiskers = 4

\* C24: "p n" in bring-up stores exactly n microseconds in the unsigned 32-bit
\* sampling period for every positive n, the timer is started with the stored
\* period when bring-up ends, and the period is 20000 before any "p"
C24_PeriodExact ==
  /\ [](pc = "boot" => sampling_period = 20000)
  /\ [][/\ pc = "setup" /\ rx # <<>> /\ rx' = Tail(rx)
        /\ Head(rx).cmd = "p" /\ Len(Head(rx).a) >= 1 /\ Head(rx).a[1] > 0
        => ULong(sampling_period') = ULong(Head(rx).a[1])]_vars
  /\ [][pc = "setup" /\ pc' = "loop" => timer' = ULong(sampling_period)]_vars
\* after "p 40000" the timer was started with 4294941760 microseconds
C24_Witness ==
  /\ pc = "loop" /\ timer = <<65535, 40000>> /\ num_steppers = 1

\* C25: a pass visits every declared axis once, in order: it evaluates the
\* transition, then runs the driver, whatever the phase.  A phase changes in a
\* pass only by dropping by one at distance-to-go 0; the drop from 2 to 1 is
\* followed at once by the move to the retraction target, the drop from 1 to 0
\* by no move, so that phase 1 lasts until the next pass at least
C25_PassOncePerAxis ==
  /\ [][pc = "loop" /\ pc' = "pass" => k' = 0 /\ sub' = 0]_vars
  /\ [][pc = "pass" /\ pc' # "pass" => k = num_steppers /\ sub = 0]_vars
  /\ [][pc = "pass" /\ pc' = "pass" /\ <<k, sub>>' # <<k, sub>> =>
          /\ k < num_steppers
          /\ \/ sub = 0 /\ k' = k /\ sub' \in {1, 2}
             \/ sub = 1 /\ k' = k /\ sub' = 2
             \/ sub = 2 /\ k' = k + 1 /\ sub' = 0
             \/ sub = 2 /\ k' = k /\ sub' = 3
             \/ sub = 3 /\ k' = k + 1 /\ sub' = 0]_vars
  /\ [][pc = "pass" /\ whisking_status' # whisking_status =>
          /\ sub = 0 /\ whisking_status[k] > 0 /\ accel_steppers[k].tgt = accel_steppers[k].pos
          /\ whisking_status' = [whisking_status EXCEPT ![k] = @ - 1]
          /\ sub' = IF whisking_status[k] = 2 THEN 1 ELSE 2]_vars
  /\ [][pc = "pass" /\ sub = 0 /\ sub' = 2 => whisking_status'[k] # 1 \/ UNCHANGED whisking_status]_vars
  /\ [][pc = "pass" /\ sub = 0 => UNCHANGED accel_steppers]_vars
  /\ [][pc = "pass" /\ sub = 1 /\ sub' = 2 =>
          whisking_status[k] = 1 /\ accel_steppers'[k].tgt = ret_steps[k]]_vars
\* the retraction target equals the protraction target: the axis dropped to
\* phase 1 at its target and holds it, with nothing left to travel, when the
\* pass ends
C25_Witness ==
  /\ pc = "loop" /\ whisking_status[0] = 1 /\ hist[0].seq = <<2, 1>>
  /\ prot_steps[0] = 3 /\ ret_steps[0] = 3
  /\ accel_steppers[0].pos = 3 /\ accel_steppers[0].tgt = 3

\* C26: until a set_prot or set_ret command is dispatched, every declared axis
\* has the default protraction target 133 and the default retraction target 22
C26_DefaultSteps ==
  /\ [](pc \notin {"boot", "setup"} /\ cur = NoCmd =>
          \A a \in 0 .. (num_steppers - 1) :
            prot_steps[a] = default_prot /\ ret_steps[a] = default_ret)
  /\ [][prot_steps' # prot_steps \/ ret_steps' # ret_steps =>
          pc = "cmd" /\ cur.cmd \in {"set_prot", "set_ret"}]_vars
\* two axes are declared, no command was dispatched yet, and the second axis
\* has both targets at 0
C26_Witness ==
  /\ pc = "loop" /\ cur = NoCmd /\ num_steppers = 2
  /\ prot_steps[0] = 133 /\ ret_steps[0] = 22
  /\ prot_steps[1] = 0 /\ ret_steps[1] = 0

\* C27: the numbers of declared shields, axes and channels never exceed
\* MAX_SHIELDS, MAX_STEPPERS and MAX_WHISKERS, and every shield address index
\* lies inside the address table
C27_WithinCapacity ==
  /\ num_shields <= MAX_SHIELDS
  /\ num_steppers <= MAX_STEPPERS
  /\ num_whiskers <= MAX_WHISKERS
  /\ \A i \in 1 .. Len(motor_shields) : motor_shields[i] \in 0 .. (AddressTable - 1)
\* "s 0 12 99 0" declared two axes with nine channels each
C27_Witness ==
  /\ pc = "setup" /\ num_shields = 1 /\ num_steppers = 2 /\ num_whiskers = 18

\* C28: a dispatched command whose axis argument is neither ALL_FLAG nor the
\* id of a declared axis writes no entry of the target, phase and driver
\* arrays, declared or not, and homes nothing
C28_UndeclaredAxisIgnored ==
  [][/\ pc = "cmd" /\ cur.cmd # "set_sampling"
     /\ cur.sid # ALL_FLAG /\ cur.sid \notin 0 .. (num_steppers - 1)
     => UNCHANGED axisVars /\ pc' # "home"]_vars
\* with two axes declared, "set_prot 5 10" wrote the entry of axis 5
C28_Witness ==
  /\ num_steppers = 2 /\ prot_steps[5] = 10
  /\ last = [cmd |-> "set_prot", sid |-> 5, val |-> 10]

\* C29: once "c" has been processed, every run-time command line taken from
\* the receive buffer is taken by loop() and dispatched as that command
C29_RunTimeLinesDispatched ==
  [][/\ rx # <<>> /\ rx' = Tail(rx) /\ setup_complete # 0
     /\ Head(rx).cmd \in {"set_prot", "set_ret", "set_speed", "set_accel", "whisk",
                          "set_sampling", "home_stepper", "halt_whisk", "retract"}
     => pc = "loop" /\ pc' = "cmd" /\ cur'.cmd = Head(rx).cmd]_vars
\* "c" has been processed and "whisk 0", received right behind it, is the next
\* line the bring-up loop reads
C29_Witness ==
  /\ pc = "setup" /\ setup_complete # 0 /\ num_steppers = 1
  /\ rx # <<>> /\ Head(rx) = Cmd1("whisk", 0)

\* C30: whenever loop() is about to look at the receive buffer, a declared
\* axis in phase 0 has distance-to-go 0
C30_IdleIsAtTarget ==
  pc = "loop" =>
    \A a \in 0 .. (num_steppers - 1) :
      whisking_status[a] = 0 => DistanceToGo(accel_steppers[a]) = 0

\* the acceleration of axis 0 was halved on its way to the retraction target
\* 2: the axis passed the target at speed, dropped to phase 0 there, and is one
\* step beyond it
C30_Witness ==
  /\ pc = "loop" /\ whisking_status[0] = 0 /\ hist[0].cmd = "set_accel"
  /\ ret_steps[0] = 2 /\ accel_steppers[0].tgt = 2 /\ accel_steppers[0].pos = 3
  /\ accel_steppers[0].spd = 0 - 1

\* C31: set_prot and set_ret write the stored targets only, never a phase or a
\* driver (position, in-flight target, speed).  A driver's target is written
\* only where a move, a stop or a homing is issued, and a move takes the stored
\* target as it is at that moment: whisk the protraction target, retract and
\* the drop from phase 2 to 1 the retraction target
C31_StepsOnlyStored ==
  /\ [][pc = "cmd" /\ cur.cmd \in {"set_prot", "set_ret"} =>
          /\ UNCHANGED <<whisking_status, accel_steppers>>
          /\ cur.cmd = "set_prot" => UNCHANGED ret_steps
          /\ cur.cmd = "set_ret" => UNCHANGED prot_steps]_vars
  /\ [][\A a \in Slots :
          accel_steppers'[a].tgt # accel_steppers[a].tgt =>
            \/ pc = "cmd" /\ cur.cmd \in {"whisk", "retract", "halt_whisk"}
            \/ pc = "pass" /\ sub = 1 /\ a = k
            \/ pc = "home"]_vars
  /\ [][pc = "cmd" /\ cur.cmd = "whisk" /\ sub = 1 /\ sub' = 0 =>
          accel_steppers'[Axis].tgt = prot_steps[Axis]]_vars
  /\ [][pc = "cmd" /\ cur.cmd = "retract" /\ sub = 0 /\ sub' = 1 =>
          accel_steppers'[Axis].tgt = ret_steps[Axis]]_vars
  /\ [][pc = "pass" /\ sub = 1 /\ sub' = 2 =>
          accel_steppers'[k].tgt = ret_steps[k]]_vars
\* axis 0 is protracting towards 4 and has not arrived; "set_prot 999 5" has
\* been carried out and the driver still heads for 4
C31_Witness ==
  /\ pc = "loop" /\ last = [cmd |-> "set_prot", sid |-> ALL_FLAG, val |-> 5]
  /\ whisking_status[0] = 2 /\ prot_steps[0] = 5
  /\ accel_steppers[0].tgt = 4 /\ accel_steppers[0].pos < 4

====
